---- MODULE Spec2Model ----
(***************************************************************************)
(* Model of the Agent Federation control plane of                          *)
(* complete-homelab-orchestrator: src/src/mcp/agent-federation.ts          *)
(* (class AgentFederation) and src/src/security/rate-limiter.ts (class     *)
(* RateLimiter).                                                           *)
(*                                                                         *)
(* Modelling conventions                                                   *)
(*  - JavaScript objects have identity.  `heap` maps an object reference   *)
(*    to the FederatedAgent record it holds; `agents` is the Map of the    *)
(*    class, kept as the sequence of the references it holds in Map        *)
(*    insertion order (Map.set on an existing key keeps the key's          *)
(*    position, Map.delete followed by Map.set moves it to the end).       *)
(*  - loadAvg is an IEEE double in the source.  It is kept here as a       *)
(*    fixed-point number with LoadScale units per 1.0, products rounded    *)
(*    down, plus the value NaN, which Math.min/Math.max propagate.         *)
(*  - agent ids are the integers 1..MaxAgents; their integer order stands  *)
(*    for the order String.prototype.localeCompare gives distinct ids.     *)
(*  - time is in milliseconds, as Date.now() returns it.                   *)
(***************************************************************************)
EXTENDS Integers, Sequences, FiniteSets, Bags, TLC

\* ---------------------------------------------------------------- bounds
MaxAgents == 2
MaxCalls == 4
MaxBurstCalls == 5
MaxInFlight == 1
MaxClockSteps == 1
MaxConsensus == 1
MaxCandidates == 4
MaxConsensusCalls == 5
MaxAdmissionCalls == 5
MaxAdmissionSteps == 4
MaxCleanups == 1
MaxKeyLen == 2

\* ------------------------------------------------------- program constants
LoadScale == 100
NaN == 100000
OfflineThreshold == 60000
DefaultRouteTimeout == 30000
DefaultConsensusTimeout == 20000
DefaultQuorum == 50
CleanupInterval == 60000
FnvBasisHi == 33052
FnvBasisLo == 40389

\* the clock starts at ClockStart and moves in steps of ClockStep
ClockStep == OfflineThreshold
ClockStart == 1
MaxTime == ClockStart + MaxClockSteps * ClockStep

\* ------------------------------------------------------------ input sets
AgentIds == 1..MaxAgents
CandidateIds == 1..MaxCandidates
MaxIds == IF MaxCandidates > MaxAgents THEN MaxCandidates ELSE MaxAgents
CapOrder == <<"x", "y", "z">>
Capabilities == {CapOrder[i] : i \in 1..Len(CapOrder)}
CapArrays == {<<"x">>, <<"y", "x", "x">>}
Endpoints == {"http://agent"}
HealthStatus == {"active", "degraded", "offline"}
Undefined == "undefined"
\* an omitted optional number (lastHeartbeat, update.loadAvg)
NoTime == 0 - 1
NoLoad == NaN + 1
\* the null selectAgent returns
Null == 0

\* what upsertAgent is called with: every combination of two capability arrays,
\* two health values and three loads without lastHeartbeat, and one record per id
\* with a stale lastHeartbeat, a load above 1.0 and health degraded
AgentInputs ==
  [id : AgentIds, capabilities : CapArrays, endpoint : Endpoints,
   healthStatus : {"active", "offline"}, lastHeartbeat : {NoTime}, loadAvg : {30, 50, NaN}]
  \cup
  [id : AgentIds, capabilities : {<<"x">>}, endpoint : Endpoints,
   healthStatus : {"degraded"}, lastHeartbeat : {0}, loadAvg : {170}]

\* what heartbeat is called with
UpdateHealthInputs == {Undefined, "active", "offline"}
UpdateLoadInputs == {NoLoad, 50}

\* "user-42" and "k" as sequences of UTF-16 code units; <<>> is the empty string
User42 == <<117, 115, 101, 114, 45, 52, 50>>
StickyKeys == {<<>>, <<107>>, User42}
\* keys of up to MaxKeyLen characters out of 'k', U+00E9 and U+4E2D
KeyUnits == {107, 233, 20013}
HashKeys == UNION {[1..n -> KeyUnits] : n \in 1..MaxKeyLen}
\* opts.requireHealthy; opts.stickySessionKey, <<>> when omitted and <<key>> when
\* supplied; opts.preferAgents, <<>> when omitted or empty
RouteOptions ==
  [requireHealthy : {Undefined, "true", "false"},
   stickySessionKey : {<<>>} \cup {<<k>> : k \in StickyKeys},
   preferAgents : {<<>>, <<MaxAgents, 1>>} \cup {<<id>> : id \in AgentIds}]
NoOptions == [requireHealthy |-> Undefined, stickySessionKey |-> <<>>, preferAgents |-> <<>>]
\* what routeRequest is called with
RouteInputs ==
  [requireHealthy : {Undefined, "false"}, stickySessionKey : {<<>>, <<User42>>},
   preferAgents : {<<>>, <<MaxAgents>>}]
RouteCapabilities == {"x", "z"}
\* the agents and calls of the burst scenario
BurstAgents ==
  [id : AgentIds, capabilities : {<<"x">>}, endpoint : Endpoints,
   healthStatus : {"active"}, lastHeartbeat : {NoTime}, loadAvg : {30}]
BurstInputs == {NoOptions}

\* RouteOptions.timeoutMs: omitted, or longer than the clock runs
RouteTimeouts == {NoTime}
LongTimeout == OfflineThreshold + DefaultRouteTimeout
BurstTimeouts == {NoTime, LongTimeout}

\* ConsensusOptions.quorum in hundredths; NoQuorum when omitted
NoQuorum == 0 - 1
ConsensusInputs == {NoQuorum}
QuorumInputs == {NoQuorum, 0}

\* plain agents for reachConsensus
ConsensusAgents ==
  [id : CandidateIds, capabilities : {<<"x">>}, endpoint : Endpoints,
   healthStatus : {"active"}, lastHeartbeat : {NoTime}, loadAvg : {30}]

\* ------------------------------------------------------------- helpers
Range(s) == {s[i] : i \in 1..Len(s)}

Includes(s, x) == x \in Range(s)

\* Array.prototype.filter: the elements of s that are in keep, in the order of s
SeqFilter(s, keep) == SelectSeq(s, LAMBDA x : x \in keep)

\* Math.min / Math.max on loads: NaN if either argument is NaN
JsMin(a, b) == IF a = NaN \/ b = NaN THEN NaN ELSE IF a < b THEN a ELSE b

JsMax(a, b) == IF a = NaN \/ b = NaN THEN NaN ELSE IF a > b THEN a ELSE b

\* x * num/den and x + d on loads
JsMul(x, num, den) == IF x = NaN THEN NaN ELSE (x * num) \div den

JsAdd(x, d) == IF x = NaN THEN NaN ELSE x + d

\* Math.min(1, Math.max(0, x))
ClampLoad(x) == JsMin(LoadScale, JsMax(0, x))

\* [...new Set(capabilities)].sort()
NormalizeCaps(arr) == SeqFilter(CapOrder, Range(arr))

\* ------------------------------------------------------------ stableHash
\* A 32-bit word is kept as <<high half, low half>>, each in 0..HalfWord-1.  The
\* source mixes ToInt32 (^=, <<) with double additions that stay exact integers and
\* ends with >>> 0, so every step matters only modulo 2^32.
HalfWord == 65536

RECURSIVE Pow2(_)
Pow2(n) == IF n = 0 THEN 1 ELSE 2 * Pow2(n - 1)

RECURSIVE XorInt(_, _)
XorInt(a, b) ==
  IF a = 0 THEN b
  ELSE IF b = 0 THEN a
  ELSE ((a + b) % 2) + 2 * XorInt(a \div 2, b \div 2)

\* h ^ code, for a UTF-16 code unit
WordXor(h, code) == <<h[1], XorInt(h[2], code)>>

\* h << k, for the shift counts the source uses
WordShl(h, k) ==
  IF k >= 16 THEN <<(h[2] * Pow2(k - 16)) % HalfWord, 0>>
  ELSE <<(((h[1] * Pow2(k)) % HalfWord) + ((h[2] * Pow2(k)) \div HalfWord)) % HalfWord,
         (h[2] * Pow2(k)) % HalfWord>>

WordAdd(a, b) ==
  <<(a[1] + b[1] + ((a[2] + b[2]) \div HalfWord)) % HalfWord, (a[2] + b[2]) % HalfWord>>

\* (h >>> 0) % n
WordMod(h, n) == ((h[1] % n) * (HalfWord % n) + (h[2] % n)) % n

HashStep(h, code) ==
  LET x == WordXor(h, code)
  IN WordAdd(x, WordAdd(WordShl(x, 1), WordAdd(WordShl(x, 4),
       WordAdd(WordShl(x, 7), WordAdd(WordShl(x, 8), WordShl(x, 24))))))

RECURSIVE HashFrom(_, _)
HashFrom(h, input) ==
  IF input = <<>> THEN h ELSE HashFrom(HashStep(h, Head(input)), Tail(input))

stableHash(input) == HashFrom(<<FnvBasisHi, FnvBasisLo>>, input)

\* stableHash of the keys of the route options, tabulated
HashTable == [k \in StickyKeys |-> stableHash(k)]

\* ------------------------------------------------------------------ state
VARIABLES
  agents,      \* AgentFederation.agents: object references in Map insertion order
  heap,        \* object reference -> FederatedAgent record
  inflight,    \* bag of routeRequest calls suspended at `await fetch`
  now,         \* Date.now()
  calls,       \* number of calls of the public methods made so far
  sentNow,     \* number of fetch() calls routeRequest issued at the instant `now`
  registered,  \* history: ids upserted and not removed since
  lastPick,    \* history: candidate ids and result of the last sticky selectAgent
  consensus,   \* reachConsensus calls suspended at await Promise.allSettled
  limiter,     \* the RateLimiter: its config, its clients Map, its cleanup timer
  checks,      \* history: per client key, the time and answer of each checkLimit
  listed,      \* the array a caller got from listAgents, and a copy of what it read then
  hashed       \* history: the last sticky key a caller selected with, and its stableHash

vars == <<agents, heap, inflight, now, calls, sentNow, registered, lastPick, consensus,
          limiter, checks, listed, hashed>>

admission == <<limiter, checks>>

Refs == 1..(MaxIds * (2 + MaxInFlight + MaxConsensus))

\* this.agents.get(id)
RefOf(id) ==
  IF \E r \in Range(agents) : heap[r].id = id
  THEN CHOOSE r \in Range(agents) : heap[r].id = id
  ELSE Null

InFlightRefs(bag) == {c.agent : c \in BagToSet(bag)}

\* the candidates captured by the suspended reachConsensus calls
ConsensusRefs(cons) == UNION {Range(cons[k].candidates) : k \in DOMAIN cons}

\* objects no longer reachable from the Map, from a suspended call or from the
\* caller's array are dropped
Collect(h, ags, bag, cons) ==
  [r \in (DOMAIN h) \cap (Range(ags) \cup InFlightRefs(bag) \cup ConsensusRefs(cons)
                          \cup Range(listed.refs)) |-> h[r]]

\* a reference for a new object of agent `id`: identities are not observable, so
\* the least unused one of id, id + MaxIds, id + 2 * MaxIds, ... is taken
FreshRef(id, used) ==
  LET free == {r \in Refs \ used : r % MaxIds = id % MaxIds}
  IN CHOOSE r \in free : \A s \in free : r <= s

NoPick == [candidates |-> {}, id |-> Null]

NoList == [refs |-> <<>>, copy |-> <<>>]

\* new RateLimiter(config): no client, the cleanup timer armed
NewLimiter(config) ==
  [config |-> config, clients |-> <<>>, cleanupAt |-> ClockStart + CleanupInterval]

\* the limiter the repository constructs
DeployedConfig == [windowMs |-> 60000, maxRequests |-> 100, burstSize |-> 20]

InitAdmission(configs) ==
  /\ limiter \in {NewLimiter(config) : config \in configs}
  /\ checks = <<>>

InitFederation ==
  /\ agents = <<>>
  /\ heap = <<>>
  /\ inflight = EmptyBag
  /\ now = ClockStart
  /\ calls = 0
  /\ sentNow = 0
  /\ registered = {}
  /\ lastPick = NoPick
  /\ hashed = <<>>
  /\ consensus = <<>>
  /\ listed = NoList

Init == InitFederation /\ InitAdmission({DeployedConfig})

\* ------------------------------------------------------------- upsertAgent
\* Normalized with the lastHeartbeat of the existing record not carried over
Normalized_FreshHeartbeat(agent, existing) ==
  [id |-> agent.id,
   capabilities |-> NormalizeCaps(agent.capabilities),
   endpoint |-> agent.endpoint,
   healthStatus |-> agent.healthStatus,
   lastHeartbeat |-> IF agent.lastHeartbeat # NoTime THEN agent.lastHeartbeat ELSE now,
   loadAvg |-> ClampLoad(agent.loadAvg)]

Normalized(agent, existing) ==
  [id |-> agent.id,
   capabilities |-> NormalizeCaps(agent.capabilities),
   endpoint |-> agent.endpoint,
   healthStatus |-> agent.healthStatus,
   lastHeartbeat |->
     IF agent.lastHeartbeat # NoTime THEN agent.lastHeartbeat
     ELSE IF existing # Null THEN heap[existing].lastHeartbeat
     ELSE now,
   loadAvg |-> ClampLoad(agent.loadAvg)]

\* Map.set: an existing key keeps its position, a new key is appended
MapSet(ags, existing, ref) ==
  IF existing = Null THEN Append(ags, ref)
  ELSE [i \in 1..Len(ags) |-> IF ags[i] = existing THEN ref ELSE ags[i]]

upsertAgent(agent) ==
  LET existing == RefOf(agent.id)
      kept == (Range(agents) \ {existing}) \cup InFlightRefs(inflight) \cup ConsensusRefs(consensus)
              \cup Range(listed.refs)
      ref == FreshRef(agent.id, kept)
      ags == MapSet(agents, existing, ref)
  IN /\ agents' = ags
     /\ heap' = Collect([r \in (DOMAIN heap) \cup {ref} |->
                           IF r = ref THEN Normalized(agent, existing) ELSE heap[r]],
                        ags, inflight, consensus)
     /\ registered' = registered \cup {agent.id}
     /\ calls' = calls + 1
     /\ UNCHANGED <<inflight, now, sentNow, lastPick, hashed, listed, consensus, admission>>

Register(inputs, budget) ==
  /\ calls < budget
  /\ \E agent \in inputs : upsertAgent(agent)

\* ------------------------------------------------------------- removeAgent
\* Map.delete
MapDelete(ags, existing) == SeqFilter(ags, Range(ags) \ {existing})

removeAgent(id) ==
  LET ags == MapDelete(agents, RefOf(id))
  IN /\ agents' = ags
     /\ heap' = Collect(heap, ags, inflight, consensus)
     /\ registered' = registered \ {id}
     /\ calls' = calls + 1
     /\ UNCHANGED <<inflight, now, sentNow, lastPick, hashed, listed, consensus, admission>>

Deregister(ids, budget) ==
  /\ calls < budget
  /\ \E id \in ids : removeAgent(id)

\* --------------------------------------------------------------- heartbeat
heartbeat(id, health, load) ==
  LET ref == RefOf(id)
  IN /\ calls' = calls + 1
     /\ IF ref = Null THEN heap' = heap
        ELSE heap' = [heap EXCEPT ![ref] =
               [@ EXCEPT !.lastHeartbeat = now,
                         !.healthStatus = IF health # Undefined THEN health ELSE @,
                         !.loadAvg = IF load # NoLoad THEN ClampLoad(load) ELSE @]]
     /\ UNCHANGED <<agents, inflight, now, sentNow, registered, lastPick, hashed, listed, consensus, admission>>

Heartbeat ==
  /\ calls < MaxCalls
  /\ \E id \in AgentIds, health \in UpdateHealthInputs, load \in UpdateLoadInputs :
       heartbeat(id, health, load)

\* -------------------------------------------------------------- listAgents
\* SortById with the sort left out: the Map's order
SortById_Unsorted(refs) == SeqFilter(agents, refs)

\* list.sort((a, b) => a.id.localeCompare(b.id)), as the ids of a Map are distinct
RECURSIVE SortById(_)
SortById(refs) ==
  IF refs = {} THEN <<>>
  ELSE LET first == CHOOSE r \in refs : \A s \in refs : heap[r].id <= heap[s].id
       IN <<first>> \o SortById(refs \ {first})

\* filter.healthStatus is Undefined when omitted, filter.capabilities <<>> when
\* omitted or empty
listAgents(filter) ==
  LET all == Range(agents)
      byHealth == IF filter.healthStatus # Undefined
                  THEN {r \in all : heap[r].healthStatus = filter.healthStatus}
                  ELSE all
      byCaps == IF Len(filter.capabilities) > 0
                THEN {r \in byHealth :
                        \A i \in 1..Len(filter.capabilities) :
                          Includes(heap[r].capabilities, filter.capabilities[i])}
                ELSE byHealth
  IN SortById(byCaps)

\* listAgents arguments: no filter, and both filters
ListInputs ==
  {[healthStatus |-> Undefined, capabilities |-> <<>>],
   [healthStatus |-> "active", capabilities |-> <<"x">>]}

\* a caller's listAgents(filter): the array holds the objects of the Map; the caller
\* notes what it reads from them at that moment
List(budget) ==
  /\ calls < budget
  /\ \E filter \in ListInputs :
       LET list == listAgents(filter)
       IN listed' = [refs |-> list, copy |-> [i \in DOMAIN list |-> heap[list[i]]]]
  /\ calls' = calls + 1
  /\ UNCHANGED <<agents, heap, inflight, now, sentNow, registered, lastPick, hashed, consensus,
                 admission>>

\* ------------------------------------------------------------- selectAgent
\* JavaScript truthiness of opts.stickySessionKey: omitted and "" are both falsy
HasSticky(opts) == opts.stickySessionKey # <<>> /\ opts.stickySessionKey[1] # <<>>

\* (a, b) => a.loadAvg - b.loadAvg is negative
LoadLess(a, b) == a # NaN /\ b # NaN /\ a < b

\* The elements list.sort((a, b) => a.loadAvg - b.loadAvg)[0] can be.  A NaN
\* difference compares as equal; Array.prototype.sort is stable, so with a
\* consistent comparator the first of the least elements stays first.  With a NaN
\* beside two different loads the comparator is inconsistent and the order is
\* implementation-defined.
SortedFirst(list) ==
  LET loads == {heap[r].loadAvg : r \in Range(list)}
      consistent == NaN \notin loads \/ Cardinality(loads \ {NaN}) <= 1
      least == CHOOSE i \in 1..Len(list) :
                 /\ \A j \in 1..Len(list) : ~LoadLess(heap[list[j]].loadAvg, heap[list[i]].loadAvg)
                 /\ \A k \in 1..(i - 1) :
                      \E j \in 1..Len(list) : LoadLess(heap[list[j]].loadAvg, heap[list[k]].loadAvg)
  IN IF consistent THEN {list[least]} ELSE Range(list)

\* agents with the capability, in Map order
Eligible(capability) ==
  SeqFilter(agents, {r \in Range(agents) : Includes(heap[r].capabilities, capability)})

\* Healthy with the health gate left out
Healthy_Ungated(capability, opts) == Eligible(capability)

\* the health gate
Healthy(capability, opts) ==
  LET eligible == Eligible(capability)
  IN IF opts.requireHealthy # "false"
     THEN SeqFilter(eligible, {r \in Range(eligible) : heap[r].healthStatus = "active"})
     ELSE eligible

\* the index the sticky path reads
StickyIndex(key, n) ==
  WordMod(IF key \in DOMAIN HashTable THEN HashTable[key] ELSE stableHash(key), n) + 1

\* the set of objects a call can return (Null for null)
selectAgent(capability, opts) ==
  LET healthy == Healthy(capability, opts)
      preferred == SeqFilter(healthy, {r \in Range(healthy) : Includes(opts.preferAgents, heap[r].id)})
  IN IF Len(healthy) = 0 THEN {Null}
     ELSE IF HasSticky(opts)
       THEN {healthy[StickyIndex(opts.stickySessionKey[1], Len(healthy))]}
     ELSE IF Len(opts.preferAgents) > 0 /\ Len(preferred) > 0 THEN SortedFirst(preferred)
     ELSE SortedFirst(healthy)

IdsOf(refs) == {heap[r].id : r \in refs}

\* a caller's selectAgent("x", {stickySessionKey: "user-42"}); the class keeps
\* nothing of it, the caller remembers the candidates and the answer
Select ==
  \E ref \in selectAgent("x", [NoOptions EXCEPT !.stickySessionKey = <<User42>>]) :
    /\ ref # Null
    /\ lastPick' = [candidates |-> IdsOf(Range(Healthy("x", NoOptions))), id |-> heap[ref].id]
    /\ UNCHANGED <<agents, heap, inflight, now, calls, sentNow, registered, consensus, admission,
                   listed, hashed>>

\* a caller's selectAgent('x', {stickySessionKey}) with a key of its own: the value
\* stableHash gives for the key is kept beside the key
SelectSticky(keys) ==
  \E key \in keys :
    \E ref \in selectAgent("x", [NoOptions EXCEPT !.stickySessionKey = <<key>>]) :
      /\ ref # Null
      /\ hashed' = <<[input |-> key, output |-> stableHash(key)]>>
      /\ UNCHANGED <<agents, heap, inflight, now, calls, sentNow, registered, lastPick, consensus,
                     admission, listed>>

\* ------------------------------------------------------------ routeRequest
\* routeRequest with the transport call made even when selectAgent returns null: it
\* falls back to the first agent that has the capability
routeRequest_FallsBack(capability, opts, timeoutMs) ==
  \E ref \in selectAgent(capability, opts) :
    LET target == IF ref = Null /\ Len(Eligible(capability)) > 0
                  THEN Eligible(capability)[1] ELSE ref
    IN /\ calls' = calls + 1
       /\ IF target = Null
          THEN UNCHANGED <<inflight, sentNow>>
          ELSE /\ BagCardinality(inflight) < MaxInFlight
               /\ inflight' = inflight (+) SetToBag({[agent |-> target,
                                  deadline |-> now + DefaultRouteTimeout,
                                  cancelRequested |-> FALSE]})
               /\ sentNow' = sentNow + 1
       /\ UNCHANGED <<agents, heap, now, registered, lastPick, hashed, listed, consensus, admission>>

\* up to `await fetch(...)`: select, throw when there is no agent, else arm the
\* timer (opts.timeoutMs, NoTime when omitted) and send
routeRequest(capability, opts, timeoutMs) ==
  \E ref \in selectAgent(capability, opts) :
    /\ calls' = calls + 1
    /\ IF ref = Null
       THEN UNCHANGED <<inflight, sentNow>>
       ELSE /\ BagCardinality(inflight) < MaxInFlight
            /\ inflight' = inflight (+) SetToBag({[agent |-> ref,
                               deadline |-> now + (IF timeoutMs # NoTime THEN timeoutMs
                                                   ELSE DefaultRouteTimeout),
                               cancelRequested |-> FALSE]})
            /\ sentNow' = sentNow + 1
    /\ UNCHANGED <<agents, heap, now, registered, lastPick, hashed, listed, consensus, admission>>

RouteStart(capabilities, inputs, timeouts, budget) ==
  /\ calls < budget
  /\ \E capability \in capabilities, opts \in inputs, timeoutMs \in timeouts :
       routeRequest(capability, opts, timeoutMs)

\* SuccessFeedback without the decay
SuccessFeedback_NoDecay(a) == a

\* agent.loadAvg = Math.max(0, Math.min(1, agent.loadAvg * 0.9))
SuccessFeedback(a) == [a EXCEPT !.loadAvg = JsMax(0, JsMin(LoadScale, JsMul(@, 9, 10)))]

\* FailureFeedback without the load penalty
FailureFeedback_NoPenalty(a) == [a EXCEPT !.healthStatus = "degraded"]

\* agent.loadAvg = Math.min(1, agent.loadAvg + 0.2); agent.healthStatus = 'degraded'
FailureFeedback(a) ==
  [a EXCEPT !.loadAvg = JsMin(LoadScale, JsAdd(@, LoadScale \div 5)),
            !.healthStatus = "degraded"]

\* after `await fetch(...)`: the call leaves, its captured agent object is updated
Settle(c, updated) ==
  LET rest == inflight (-) SetToBag({c})
  IN /\ inflight' = rest
     /\ heap' = Collect([heap EXCEPT ![c.agent] = updated], agents, rest, consensus)
     /\ UNCHANGED <<agents, now, calls, sentNow, registered, lastPick, hashed, listed, consensus, admission>>

\* the response arrives with res.ok and a JSON body
RouteOk == \E c \in BagToSet(inflight) : Settle(c, SuccessFeedback(heap[c.agent]))

\* fetch rejects, or the response is not ok, or its body is not JSON
RouteError == \E c \in BagToSet(inflight) : Settle(c, FailureFeedback(heap[c.agent]))

\* the timer armed by setTimeout fires controller.abort() and fetch rejects
RouteAbort ==
  \E c \in BagToSet(inflight) : now >= c.deadline /\ Settle(c, FailureFeedback(heap[c.agent]))

\* The caller gives up on a call that is in flight.  routeRequest takes no
\* cancellation signal (its AbortController is local), so nothing in the class
\* learns of it: the call stays suspended and settles as any other.
CallerCancel ==
  \E c \in BagToSet(inflight) :
    /\ ~c.cancelRequested
    /\ inflight' = (inflight (-) SetToBag({c})) (+) SetToBag({[c EXCEPT !.cancelRequested = TRUE]})
    /\ UNCHANGED <<agents, heap, now, calls, sentNow, registered, lastPick, hashed, listed, consensus, admission>>

\* ---------------------------------------------------------- reachConsensus
\* up to `await Promise.allSettled(...)`: the candidates are captured, the timer is
\* armed and one fetch per candidate is sent
ConsensusStart(capabilities, inputs, budget) ==
  /\ calls < budget
  /\ \E capability \in capabilities, quorum \in inputs :
       LET candidates == listAgents([healthStatus |-> "active", capabilities |-> <<capability>>])
       IN /\ calls' = calls + 1
          /\ IF Len(candidates) = 0
             THEN UNCHANGED consensus
             ELSE /\ Len(consensus) < MaxConsensus
                  /\ consensus' = Append(consensus,
                       [candidates |-> candidates,
                        activeAtStart |-> {heap[r].id : r \in
                          {a \in Range(agents) : /\ heap[a].healthStatus = "active"
                                                 /\ Includes(heap[a].capabilities, capability)}},
                        results |-> [i \in 1..Len(candidates) |-> "pending"],
                        quorumFrac |-> IF quorum # NoQuorum THEN quorum ELSE DefaultQuorum,
                        deadline |-> now + DefaultConsensusTimeout])
          /\ UNCHANGED <<agents, heap, inflight, now, sentNow, registered, lastPick, hashed, listed, admission>>

\* the sub-call of candidate i of call k settles
SubSettle(k, i, status, updated) ==
  /\ consensus[k].results[i] = "pending"
  /\ consensus' = [consensus EXCEPT ![k].results[i] = status]
  /\ heap' = [heap EXCEPT ![consensus[k].candidates[i]] = updated]
  /\ UNCHANGED <<agents, inflight, now, calls, sentNow, registered, lastPick, hashed, listed, admission>>

\* ConsensusFeedback with a fulfilled sub-call marking its agent active
ConsensusFeedback_Restores(a) ==
  [a EXCEPT !.loadAvg = JsMax(0, JsMin(LoadScale, JsMul(@, 95, 100))), !.healthStatus = "active"]

\* agent.loadAvg = Math.max(0, Math.min(1, agent.loadAvg * 0.95))
ConsensusFeedback(a) == [a EXCEPT !.loadAvg = JsMax(0, JsMin(LoadScale, JsMul(@, 95, 100)))]

\* a candidate answers with res.ok and a JSON body
ConsensusSubOk ==
  \E k \in DOMAIN consensus : \E i \in DOMAIN consensus[k].candidates :
    SubSettle(k, i, "fulfilled", ConsensusFeedback(heap[consensus[k].candidates[i]]))

\* a candidate's fetch rejects, or its response is not ok: the promise is rejected
\* and the agent is left as it is
ConsensusSubError ==
  \E k \in DOMAIN consensus : \E i \in DOMAIN consensus[k].candidates :
    SubSettle(k, i, "rejected", heap[consensus[k].candidates[i]])

\* the shared timer fires controller.abort() and a pending fetch rejects
ConsensusSubAbort ==
  \E k \in DOMAIN consensus : \E i \in DOMAIN consensus[k].candidates :
    /\ now >= consensus[k].deadline
    /\ SubSettle(k, i, "rejected", heap[consensus[k].candidates[i]])

\* ConsensusResult with the quorum reached at okCount / N >= quorumFrac
ConsensusResult_AtLeast(c) ==
  LET decisions == [i \in DOMAIN c.candidates |->
                      [agentId |-> heap[c.candidates[i]].id, ok |-> c.results[i] = "fulfilled"]]
      okCount == Cardinality({i \in DOMAIN decisions : decisions[i].ok})
  IN [decided |-> okCount * 100 >= c.quorumFrac * Len(c.candidates), decisions |-> decisions]

\* ConsensusResult with the decisions of the rejected sub-calls left out
ConsensusResult_OnlyFulfilled(c) ==
  LET kept == SelectSeq(c.candidates, LAMBDA r :
                \E i \in DOMAIN c.candidates : c.candidates[i] = r /\ c.results[i] = "fulfilled")
      decisions == [i \in DOMAIN kept |-> [agentId |-> heap[kept[i]].id, ok |-> TRUE]]
  IN [decided |-> Len(kept) * 100 > c.quorumFrac * Len(c.candidates), decisions |-> decisions]

\* the early return of a call that finds no candidate
reachConsensusEmpty == [decided |-> FALSE, decisions |-> <<>>]

\* what a call whose sub-calls have all settled returns
ConsensusResult(c) ==
  LET decisions == [i \in DOMAIN c.candidates |->
                      [agentId |-> heap[c.candidates[i]].id, ok |-> c.results[i] = "fulfilled"]]
      okCount == Cardinality({i \in DOMAIN decisions : decisions[i].ok})
  IN [decided |-> okCount * 100 > c.quorumFrac * Len(c.candidates), decisions |-> decisions]

\* ConsensusReturn with the call returning on the first fulfilled sub-call
ConsensusReturn_Early ==
  \E k \in DOMAIN consensus :
    LET rest == SeqFilter(consensus, Range(consensus) \ {consensus[k]})
    IN /\ \/ \A i \in DOMAIN consensus[k].results : consensus[k].results[i] # "pending"
          \/ \E i \in DOMAIN consensus[k].results : consensus[k].results[i] = "fulfilled"
       /\ consensus' = rest
       /\ heap' = Collect(heap, agents, inflight, rest)
       /\ UNCHANGED <<agents, inflight, now, calls, sentNow, registered, lastPick, hashed, listed, admission>>

\* Promise.allSettled resolves when no sub-call is pending, and the call returns
ConsensusReturn ==
  \E k \in DOMAIN consensus :
    LET rest == SeqFilter(consensus, Range(consensus) \ {consensus[k]})
    IN /\ \A i \in DOMAIN consensus[k].results : consensus[k].results[i] # "pending"
       /\ consensus' = rest
       /\ heap' = Collect(heap, agents, inflight, rest)
       /\ UNCHANGED <<agents, inflight, now, calls, sentNow, registered, lastPick, hashed, listed, admission>>

\* ------------------------------------------------------------- monitorTick
\* TickAgent with an agent offline as soon as now - lastHeartbeat reaches the threshold
TickAgent_AtThreshold(a) ==
  [a EXCEPT !.healthStatus = IF now - a.lastHeartbeat >= OfflineThreshold THEN "offline" ELSE @,
            !.loadAvg = JsMax(0, JsAdd(JsMul(@, 98, 100), 0 - (LoadScale \div 100)))]

TickAgent(a) ==
  [a EXCEPT !.healthStatus = IF now - a.lastHeartbeat > OfflineThreshold THEN "offline" ELSE @,
            !.loadAvg = JsMax(0, JsAdd(JsMul(@, 98, 100), 0 - (LoadScale \div 100)))]

monitorTick ==
  /\ calls < MaxCalls
  /\ calls' = calls + 1
  /\ heap' = [r \in DOMAIN heap |-> IF r \in Range(agents) THEN TickAgent(heap[r]) ELSE heap[r]]
  /\ UNCHANGED <<agents, inflight, now, sentNow, registered, lastPick, hashed, listed, consensus, admission>>

\* ------------------------------------------------------------------- clock
Advance ==
  /\ now < MaxTime
  /\ now' = now + ClockStep
  /\ sentNow' = 0
  /\ UNCHANGED <<agents, heap, inflight, calls, registered, lastPick, hashed, listed, consensus, admission>>

\* ------------------------------------------------------------ RateLimiter
ClientIds == {"u1", "u2"}

\* constructor arguments: burstSize / windowMs is 1 and 1/2, exact as a double
LimiterConfigs ==
  {[windowMs |-> 3, maxRequests |-> 3, burstSize |-> 3],
   [windowMs |-> 4, maxRequests |-> 4, burstSize |-> 2]}

\* retryAfter of a result that carries none
NoRetry == 0 - NaN

\* the default keyGenerator: a digest of the client id, distinct ids give distinct keys
hashClientId(clientId) == <<"sha256", clientId>>

\* Math.ceil(ms / 1000)
CeilSeconds(ms) == IF ms > 0 THEN (ms + 999) \div 1000 ELSE 0 - ((0 - ms) \div 1000)

getOrCreateClient(clients, key, t, config) ==
  IF key \in DOMAIN clients THEN clients[key]
  ELSE [requests |-> 0, windowStart |-> t, tokens |-> config.burstSize, lastRefill |-> t]

\* refillTokens without the cap at burstSize
refillTokens_Uncapped(client, t, config) ==
  LET timeSinceLastRefill == t - client.lastRefill
      tokensToAdd == (timeSinceLastRefill * config.burstSize) \div config.windowMs
  IN IF tokensToAdd > 0
     THEN [client EXCEPT !.tokens = @ + tokensToAdd, !.lastRefill = t]
     ELSE client

\* tokens = Math.min(burstSize, tokens + Math.floor(dt * burstSize / windowMs)),
\* lastRefill = now, when at least one token is due
refillTokens(client, t, config) ==
  LET timeSinceLastRefill == t - client.lastRefill
      tokensToAdd == (timeSinceLastRefill * config.burstSize) \div config.windowMs
  IN IF tokensToAdd > 0
     THEN [client EXCEPT !.tokens = IF @ + tokensToAdd < config.burstSize
                                    THEN @ + tokensToAdd ELSE config.burstSize,
                         !.lastRefill = t]
     ELSE client

\* resetWindow with the window reset as soon as windowStart + windowMs <= now
resetWindow_AtBoundary(client, t, config) ==
  IF client.windowStart <= t - config.windowMs
  THEN [client EXCEPT !.requests = 0, !.windowStart = t]
  ELSE client

\* if (client.windowStart < now - windowMs) { requests = 0; windowStart = now }
resetWindow(client, t, config) ==
  IF client.windowStart < t - config.windowMs
  THEN [client EXCEPT !.requests = 0, !.windowStart = t]
  ELSE client

\* checkLimit at time t: the client record it leaves and the result it returns
checkLimit(l, clientId, t) ==
  LET key == hashClientId(clientId)
      client == resetWindow(refillTokens(getOrCreateClient(l.clients, key, t, l.config),
                                         t, l.config), t, l.config)
      allowed == client.requests < l.config.maxRequests /\ client.tokens > 0
      after == IF allowed
               THEN [client EXCEPT !.requests = @ + 1, !.tokens = @ - 1]
               ELSE client
      resetTime == after.windowStart + l.config.windowMs
  IN [key |-> key,
      client |-> after,
      result |-> [allowed |-> allowed,
                  remaining |-> IF l.config.maxRequests - after.requests > 0
                                THEN l.config.maxRequests - after.requests ELSE 0,
                  resetTime |-> resetTime,
                  retryAfter |-> IF allowed THEN NoRetry ELSE CeilSeconds(resetTime - t)]]

\* getStatus at time t
getStatus(l, clientId, t) ==
  LET key == hashClientId(clientId)
  IN IF key \notin DOMAIN l.clients
     THEN [allowed |-> TRUE, remaining |-> l.config.maxRequests,
           resetTime |-> t + l.config.windowMs, retryAfter |-> NoRetry]
     ELSE LET client == l.clients[key]
              remaining == IF l.config.maxRequests - client.requests > 0
                           THEN l.config.maxRequests - client.requests ELSE 0
              resetTime == client.windowStart + l.config.windowMs
          IN [allowed |-> remaining > 0 /\ client.tokens > 0,
              remaining |-> remaining,
              resetTime |-> resetTime,
              retryAfter |-> IF remaining = 0 THEN CeilSeconds(resetTime - t) ELSE NoRetry]

\* Map.set / Map.delete on functions
Put(f, key, value) == [k \in (DOMAIN f) \cup {key} |-> IF k = key THEN value ELSE f[k]]

Drop(f, keys) == [k \in (DOMAIN f) \ keys |-> f[k]]

HistoryOf(key) == IF key \in DOMAIN checks THEN checks[key] ELSE <<>>

\* a caller's checkLimit(clientId)
Check(budget) ==
  /\ calls < budget
  /\ \E clientId \in ClientIds :
       LET out == checkLimit(limiter, clientId, now)
       IN /\ limiter' = [limiter EXCEPT !.clients = Put(@, out.key, out.client)]
          /\ checks' = Put(checks, out.key,
                            Append(HistoryOf(out.key), [at |-> now, allowed |-> out.result.allowed]))
  /\ calls' = calls + 1
  /\ UNCHANGED <<agents, heap, inflight, now, sentNow, registered, lastPick, hashed, listed, consensus>>

\* a caller's getStatus(clientId): it returns and assigns nothing
Peek(budget) ==
  /\ calls < budget
  /\ \E clientId \in ClientIds : getStatus(limiter, clientId, now).remaining >= 0
  /\ calls' = calls + 1
  /\ UNCHANGED <<agents, heap, inflight, now, sentNow, registered, lastPick, hashed, listed, consensus, admission>>

\* resetClient(clientId); the history of the client starts anew
Reset(budget) ==
  /\ calls < budget
  /\ \E clientId \in ClientIds :
       /\ limiter' = [limiter EXCEPT !.clients = Drop(@, {hashClientId(clientId)})]
       /\ checks' = Drop(checks, {hashClientId(clientId)})
  /\ calls' = calls + 1
  /\ UNCHANGED <<agents, heap, inflight, now, sentNow, registered, lastPick, hashed, listed, consensus>>

\* the setInterval timer of the constructor fires cleanup()
GC ==
  /\ now >= limiter.cleanupAt
  /\ LET expiredThreshold == now - (limiter.config.windowMs * 2)
         expired == {k \in DOMAIN limiter.clients :
                       limiter.clients[k].windowStart < expiredThreshold}
     IN limiter' = [limiter EXCEPT !.clients = Drop(@, expired),
                                   !.cleanupAt = @ + CleanupInterval]
  /\ UNCHANGED <<agents, heap, inflight, now, calls, sentNow, registered, lastPick, hashed, listed, consensus,
                 checks>>

\* Date.now() moves on by a millisecond, or to the next firing of the cleanup timer
Elapse ==
  /\ \E ms \in {1, CleanupInterval} :
       /\ ms = 1 => (now - ClockStart) % CleanupInterval < MaxAdmissionSteps
       /\ now + ms <= ClockStart + (MaxCleanups * CleanupInterval) + MaxAdmissionSteps
       /\ now' = now + ms
  /\ UNCHANGED <<agents, heap, inflight, calls, sentNow, registered, lastPick, hashed, listed, consensus,
                 admission>>

\* ---------------------------------------------------------- specifications
\* every operation of the class, at most MaxCalls calls
Next ==
  \/ Register(AgentInputs, MaxCalls)
  \/ Deregister(AgentIds, MaxCalls)
  \/ Heartbeat
  \/ RouteStart(RouteCapabilities, RouteInputs, RouteTimeouts, MaxCalls)
  \/ RouteOk
  \/ RouteError
  \/ RouteAbort
  \/ ConsensusStart({"x"}, ConsensusInputs, MaxCalls)
  \/ ConsensusSubOk
  \/ ConsensusSubError
  \/ ConsensusSubAbort
  \/ ConsensusReturn
  \/ monitorTick
  \/ Advance

Spec == Init /\ [][Next]_vars

\* the operations of Spec on plain agents, with the callers' side of the calls (what
\* a caller remembers of selectAgent, a caller giving up on a call), at most
\* MaxBurstCalls calls
NextBurst ==
  \/ Register(BurstAgents, MaxBurstCalls)
  \/ Deregister(AgentIds, MaxBurstCalls)
  \/ Select
  \/ RouteStart({"x"}, BurstInputs, BurstTimeouts, MaxBurstCalls)
  \/ RouteOk
  \/ RouteError
  \/ RouteAbort
  \/ CallerCancel
  \/ Advance

SpecBurst == Init /\ [][NextBurst]_vars

\* reachConsensus over up to MaxCandidates plain agents, with the registry changing
\* while a call is suspended, at most MaxConsensusCalls calls
NextConsensus ==
  \/ Register(ConsensusAgents, MaxConsensusCalls)
  \/ Deregister(CandidateIds, MaxConsensusCalls)
  \/ ConsensusStart({"x"}, QuorumInputs, MaxConsensusCalls)
  \/ ConsensusSubOk
  \/ ConsensusSubError
  \/ ConsensusSubAbort
  \/ ConsensusReturn
  \/ Advance

SpecConsensus == Init /\ [][NextConsensus]_vars

\* reachConsensus over up to MaxAgents plain agents, at most MaxCalls calls.  The
\* event loop runs what is runnable: the abort of a timer that has fired rejects the
\* pending fetches, and the continuation of a resolved Promise.allSettled is run.
NextReturn ==
  \/ Register(BurstAgents, MaxCalls)
  \/ ConsensusStart({"x"}, ConsensusInputs, MaxCalls)
  \/ ConsensusSubOk
  \/ ConsensusSubError
  \/ ConsensusSubAbort
  \/ ConsensusReturn
  \/ Advance

SpecReturn ==
  /\ Init
  /\ [][NextReturn]_vars
  /\ WF_vars(ConsensusSubAbort)
  /\ WF_vars(ConsensusReturn)

\* callers that select with sticky keys of their own while the registry changes, at
\* most MaxCalls registry calls
NextSticky ==
  \/ Register(BurstAgents, MaxCalls)
  \/ Deregister(AgentIds, MaxCalls)
  \/ SelectSticky(HashKeys)

SpecSticky == Init /\ [][NextSticky]_vars

\* a caller that keeps the array of listAgents while the registry goes on, at most
\* MaxCalls calls
NextList ==
  \/ Register(BurstAgents, MaxCalls)
  \/ Deregister(AgentIds, MaxCalls)
  \/ Heartbeat
  \/ List(MaxCalls)
  \/ RouteStart({"x"}, BurstInputs, RouteTimeouts, MaxCalls)
  \/ RouteOk
  \/ RouteError
  \/ RouteAbort
  \/ monitorTick
  \/ Advance

SpecList == Init /\ [][NextList]_vars

\* one agent of any load, read by a caller through listAgents, with two routeRequest
\* calls suspended on it
FeedbackLoads == 0..LoadScale

InitFeedback ==
  /\ \E load \in FeedbackLoads :
       LET agent == [id |-> 1, capabilities |-> <<"x">>, endpoint |-> "http://agent",
                     healthStatus |-> "active", lastHeartbeat |-> ClockStart, loadAvg |-> load]
           call == [agent |-> 1, deadline |-> ClockStart + DefaultRouteTimeout,
                    cancelRequested |-> FALSE]
       IN /\ heap = <<agent>>
          /\ listed = [refs |-> <<1>>, copy |-> <<agent>>]
          /\ inflight = SetToBag({call}) (+) SetToBag({call})
  /\ agents = <<1>>
  /\ registered = {1}
  /\ now = ClockStart
  /\ calls = 4
  /\ sentNow = 2
  /\ lastPick = NoPick
  /\ hashed = <<>>
  /\ consensus = <<>>
  /\ InitAdmission({DeployedConfig})

\* the two calls settle, in either order and each way
NextFeedback ==
  \/ RouteOk
  \/ RouteError
  \/ RouteAbort
  \/ Advance

SpecFeedback == InitFeedback /\ [][NextFeedback]_vars

\* the RateLimiter with one of LimiterConfigs, at most MaxAdmissionCalls calls
NextAdmission ==
  \/ Check(MaxAdmissionCalls)
  \/ Peek(MaxAdmissionCalls)
  \/ Reset(MaxAdmissionCalls)
  \/ GC
  \/ Elapse

InitLimiter == InitFederation /\ InitAdmission(LimiterConfigs)

SpecAdmission == InitLimiter /\ [][NextAdmission]_vars

TypeOK ==
  /\ Range(agents) \subseteq DOMAIN heap
  /\ \A r \in DOMAIN heap : heap[r].healthStatus \in HealthStatus
  /\ BagCardinality(inflight) <= MaxInFlight
  /\ Len(consensus) <= MaxConsensus

\* ------------------------------------------------------------------ claims
NumericLoads(refs) == \A r \in refs : heap[r].loadAvg # NaN

\* the candidate the specification names: lowest loadAvg, ties to the smallest id
LeastLoadById(refs) ==
  CHOOSE r \in refs :
    \A s \in refs :
      \/ heap[r].loadAvg < heap[s].loadAvg
      \/ heap[r].loadAvg = heap[s].loadAvg /\ heap[r].id <= heap[s].id

\* C1: every agent of the registry has loadAvg within [0, 1]
C1_LoadInRange == \A r \in Range(agents) : heap[r].loadAvg \in 0..LoadScale

ListFilters ==
  [healthStatus : HealthStatus \cup {Undefined},
   capabilities : {<<>>, <<"x">>, <<"y">>, <<"y", "x">>, <<"z">>}]

Matches(a, filter) ==
  /\ filter.healthStatus \in {Undefined, a.healthStatus}
  /\ Range(filter.capabilities) \subseteq Range(a.capabilities)

\* C2: List(filter) is, in ascending id order and each once, exactly the agents
\* registered and not removed since that match the filter
C2_ListIsRegistered ==
  \A filter \in ListFilters :
    LET list == listAgents(filter)
    IN /\ \A i, j \in 1..Len(list) : i < j => heap[list[i]].id < heap[list[j]].id
       /\ \A id \in registered : RefOf(id) # Null
       /\ IdsOf(Range(list)) = {id \in registered : Matches(heap[RefOf(id)], filter)}

C2_Witness ==
  /\ Len(agents) = 2
  /\ heap[agents[1]].id > heap[agents[2]].id
  /\ registered = IdsOf(Range(agents))
  /\ \E r \in Range(agents) : heap[r].healthStatus = "offline"
  /\ \E filter \in ListFilters :
       /\ filter.healthStatus # Undefined
       /\ Len(filter.capabilities) > 0
       /\ Len(listAgents(filter)) = 1

\* C3: selectAgent with requireHealthy true or omitted never returns an agent that
\* is not active, on the sticky, the preference and the least-load path
C3_HealthGate ==
  \A capability \in Capabilities, opts \in RouteOptions :
    opts.requireHealthy # "false" =>
      \A r \in selectAgent(capability, opts) : r # Null => heap[r].healthStatus = "active"

C3_Witness ==
  \E off, act \in Range(agents) :
    /\ heap[off].healthStatus = "offline"
    /\ heap[act].healthStatus = "active"
    /\ Includes(heap[off].capabilities, "x")
    /\ heap[off].loadAvg < heap[act].loadAvg
    /\ off = agents[StickyIndex(User42, Len(agents))]
    /\ selectAgent("x", NoOptions) = {act}
    /\ selectAgent("x", [NoOptions EXCEPT !.stickySessionKey = <<User42>>]) = {act}
    /\ selectAgent("x", [NoOptions EXCEPT !.preferAgents = <<heap[off].id>>]) = {act}

\* C4: without sticky key and preference, selectAgent returns the candidate with the
\* lowest loadAvg, ties to the smallest id, and null when there is no candidate
C4_LeastLoadById ==
  \A capability \in Capabilities, requireHealthy \in {Undefined, "true", "false"} :
    LET opts == [NoOptions EXCEPT !.requireHealthy = requireHealthy]
        candidates == Range(Healthy(capability, opts))
    IN NumericLoads(candidates) =>
         selectAgent(capability, opts) =
           IF candidates = {} THEN {Null} ELSE {LeastLoadById(candidates)}

\* C5: with a sticky key and N >= 1 candidates, selectAgent returns the candidate at
\* position stableHash(key) mod N of the candidates sorted by id
C5_StickyById ==
  \A capability \in Capabilities, key \in StickyKeys \ {<<>>} :
    LET opts == [NoOptions EXCEPT !.stickySessionKey = <<key>>]
        sorted == SortById(Range(Healthy(capability, opts)))
    IN Len(sorted) >= 1 =>
         selectAgent(capability, opts) = {sorted[StickyIndex(key, Len(sorted))]}

\* C6: two sticky selectAgent calls for the same key and capability made with equal
\* candidate sets return the same agent id
C6_StickyStable ==
  (lastPick.id # Null /\ lastPick.candidates = IdsOf(Range(Healthy("x", NoOptions)))) =>
    \A r \in selectAgent("x", [NoOptions EXCEPT !.stickySessionKey = <<User42>>]) :
      r # Null /\ heap[r].id = lastPick.id

\* C7: with preferAgents and no sticky key, selectAgent returns the preferred
\* candidate with the lowest loadAvg, ties to the smallest id, and the least-load
\* choice when no candidate is preferred
C7_PreferLeastLoadById ==
  \A capability \in Capabilities, opts \in RouteOptions :
    LET candidates == Range(Healthy(capability, opts))
        preferred == {r \in candidates : Includes(opts.preferAgents, heap[r].id)}
    IN (opts.stickySessionKey = <<>> /\ Len(opts.preferAgents) > 0 /\ candidates # {}
        /\ NumericLoads(candidates)) =>
         selectAgent(capability, opts) =
           IF preferred # {} THEN {LeastLoadById(preferred)}
           ELSE selectAgent(capability, [opts EXCEPT !.preferAgents = <<>>])

\* C8: with admission {window 1 s, max 3, burst 3} the fourth of four immediate
\* Route calls is rejected and sends nothing: no more than three sends at an instant
C8_FourthCallRateLimited == sentNow <= 3

FailureSettles == RouteError \/ RouteAbort

\* C9: failure feedback never changes the health of an agent from offline to degraded
C9_NoOfflineToDegraded ==
  [][FailureSettles =>
       \A r \in Range(agents) :
         heap[r].healthStatus = "offline" => heap'[r].healthStatus = "offline"]_vars

\* C10: a Route call the caller cancels while it is in flight leaves loadAvg and
\* health of the selected agent as they were
C10_CancelledCallMutatesNothing ==
  [][\A c \in BagToSet(inflight) :
       (c.cancelRequested /\ inflight' = inflight (-) SetToBag({c}) /\ c.agent \in Range(agents)) =>
         /\ heap'[c.agent].loadAvg = heap[c.agent].loadAvg
         /\ heap'[c.agent].healthStatus = heap[c.agent].healthStatus]_vars

\* min(1, loadAvg + 0.2) and loadAvg * 0.9, on loads in hundredths
Penalised(load) ==
  IF load = NaN THEN NaN
  ELSE IF load + (LoadScale \div 5) > LoadScale THEN LoadScale ELSE load + (LoadScale \div 5)

Decayed(load) == IF load = NaN THEN NaN ELSE (load * 9) \div 10

\* C11: a routeRequest whose timer fires before the transport answers gives its agent
\* the failure feedback (loadAvg becomes min(1, loadAvg + 0.2), an active agent becomes
\* degraded); one that succeeds sets loadAvg to loadAvg * 0.9 and leaves the health
C11_TimeoutAndSuccessFeedback ==
  [][\A c \in BagToSet(inflight) :
       (inflight' = inflight (-) SetToBag({c}) /\ c.agent \in DOMAIN heap') =>
         /\ RouteAbort =>
              /\ now >= c.deadline
              /\ heap'[c.agent].loadAvg = Penalised(heap[c.agent].loadAvg)
              /\ heap[c.agent].healthStatus = "active" => heap'[c.agent].healthStatus = "degraded"
         /\ RouteOk =>
              /\ heap'[c.agent].loadAvg = Decayed(heap[c.agent].loadAvg)
              /\ heap'[c.agent].healthStatus = heap[c.agent].healthStatus]_vars

C11_Witness ==
  /\ now = MaxTime
  /\ calls = 2
  /\ inflight = EmptyBag
  /\ Len(agents) = 1
  /\ heap[agents[1]].healthStatus = "degraded"
  /\ heap[agents[1]].loadAvg = 50
  /\ heap[agents[1]].lastHeartbeat = ClockStart

\* C12: a routeRequest whose candidates are empty after the capability and health
\* filters sends nothing and leaves every agent as it was
C12_NoAgentNoEffect ==
  [][\A capability \in RouteCapabilities, opts \in RouteInputs, timeoutMs \in RouteTimeouts :
       (Len(Healthy(capability, opts)) = 0 /\ routeRequest(capability, opts, timeoutMs)) =>
         UNCHANGED <<agents, heap, inflight, sentNow, registered, consensus>>]_vars

C12_Witness ==
  /\ calls = MaxCalls
  /\ inflight = EmptyBag
  /\ sentNow = 0
  /\ Len(agents) = 1
  /\ heap[agents[1]].healthStatus = "offline"
  /\ Includes(heap[agents[1]].capabilities, "x")
  /\ heap[agents[1]].loadAvg = 30
  /\ selectAgent("x", NoOptions) = {Null}

Settled(c) == \A i \in DOMAIN c.results : c.results[i] # "pending"

OkCount(c) == Cardinality({i \in DOMAIN c.results : c.results[i] = "fulfilled"})

\* C13: reachConsensus over N >= 1 candidates of which okCount succeed decides iff
\* okCount / N > quorum, strictly, with quorum 0.5 when omitted: 2 of 4 does not
\* decide, 2 of 3 does, one candidate decides iff it succeeds; without candidates
\* the result is {decided: false, decisions: []}
C13_StrictQuorum ==
  /\ reachConsensusEmpty = [decided |-> FALSE, decisions |-> <<>>]
  /\ \A k \in DOMAIN consensus :
       LET c == consensus[k]
           N == Len(c.candidates)
       IN /\ N >= 1
          /\ Settled(c) =>
               /\ ConsensusResult(c).decided <=> (OkCount(c) * 100 > c.quorumFrac * N)
               /\ (c.quorumFrac = DefaultQuorum /\ N = 4 /\ OkCount(c) = 2) => ~ConsensusResult(c).decided
               /\ (c.quorumFrac = DefaultQuorum /\ N = 3 /\ OkCount(c) = 2) => ConsensusResult(c).decided
               /\ (c.quorumFrac = DefaultQuorum /\ N = 1) => (ConsensusResult(c).decided <=> OkCount(c) = 1)

C13_Witness ==
  \E k \in DOMAIN consensus :
    /\ Settled(consensus[k])
    /\ consensus[k].quorumFrac = DefaultQuorum
    /\ Len(consensus[k].candidates) = 4
    /\ OkCount(consensus[k]) = 2
    /\ ~ConsensusResult(consensus[k]).decided

\* C14: the decisions of reachConsensus have one entry per agent that was an active
\* candidate when the call started, in ascending id order, whatever the order the
\* sub-calls settled in and whatever was registered or removed meanwhile
C14_DecisionsPerCandidate ==
  \A k \in DOMAIN consensus :
    Settled(consensus[k]) =>
      LET decisions == ConsensusResult(consensus[k]).decisions
      IN /\ Len(decisions) = Cardinality(consensus[k].activeAtStart)
         /\ {decisions[i].agentId : i \in DOMAIN decisions} = consensus[k].activeAtStart
         /\ \A i, j \in DOMAIN decisions : i < j => decisions[i].agentId < decisions[j].agentId

C14_Witness ==
  \E k \in DOMAIN consensus :
    /\ Settled(consensus[k])
    /\ Len(consensus[k].candidates) >= 2
    /\ consensus[k].results[1] = "rejected"
    /\ consensus[k].results[2] = "fulfilled"
    /\ \E id \in consensus[k].activeAtStart : id \notin registered
    /\ \E id \in registered : id \notin consensus[k].activeAtStart

\* C15: in reachConsensus a candidate whose sub-call fails gets the failure feedback
\* of routeRequest (loadAvg becomes min(1, loadAvg + 0.2), an active agent becomes
\* degraded) and one whose sub-call succeeds gets loadAvg * 0.95
C15_ConsensusFeedback ==
  [][\A k \in DOMAIN consensus : \A i \in DOMAIN consensus[k].candidates :
       LET ref == consensus[k].candidates[i]
       IN (k \in DOMAIN consensus' /\ consensus[k].results[i] = "pending") =>
            /\ consensus'[k].results[i] = "rejected" =>
                 /\ heap'[ref].loadAvg = Penalised(heap[ref].loadAvg)
                 /\ heap[ref].healthStatus = "active" => heap'[ref].healthStatus = "degraded"
            /\ consensus'[k].results[i] = "fulfilled" =>
                 heap'[ref].loadAvg = (heap[ref].loadAvg * 95) \div 100]_vars

\* C16: for every client and every interval of length windowMs, at most maxRequests
\* checkLimit calls in the interval are allowed
C16_AdmitsPerWindow ==
  \A key \in DOMAIN checks :
    LET history == checks[key]
    IN \A i \in DOMAIN history :
         Cardinality({j \in DOMAIN history :
                        /\ history[j].allowed
                        /\ history[j].at >= history[i].at
                        /\ history[j].at < history[i].at + limiter.config.windowMs})
           <= limiter.config.maxRequests

\* C17: a checkLimit result carries retryAfter iff it is not allowed, and a
\* retryAfter it carries is at least 1, for every client record and every now
C17_RetryAfterAtLeastOne ==
  \A clientId \in ClientIds :
    LET result == checkLimit(limiter, clientId, now).result
    IN /\ result.retryAfter # NoRetry <=> ~result.allowed
       /\ result.retryAfter # NoRetry => result.retryAfter >= 1

\* C18: getStatus reports the allowed, remaining and resetTime that a checkLimit at
\* the same instant reports before it consumes, the token refill and the window
\* reset due at that instant included
C18_PeekMatchesCheck ==
  \A clientId \in ClientIds :
    LET config == limiter.config
        before == resetWindow(refillTokens(
                    getOrCreateClient(limiter.clients, hashClientId(clientId), now, config),
                    now, config), now, config)
        status == getStatus(limiter, clientId, now)
    IN /\ status.allowed <=> (before.requests < config.maxRequests /\ before.tokens > 0)
       /\ status.remaining = config.maxRequests - before.requests
       /\ status.resetTime = before.windowStart + config.windowMs

\* C19: a client whose checkLimit calls are evenly spaced, at most maxRequests per
\* windowMs, is allowed on every call
C19_SustainedRateAdmitted ==
  \A key \in DOMAIN checks :
    LET history == checks[key]
        evenly == /\ Len(history) >= 2
                  /\ \A i \in 2..Len(history) :
                       history[i].at - history[i - 1].at = history[2].at - history[1].at
                  /\ (history[2].at - history[1].at) * limiter.config.maxRequests
                       >= limiter.config.windowMs
    IN evenly => \A i \in DOMAIN history : history[i].allowed

HealthOf(id) == heap[RefOf(id)].healthStatus

\* C20: monitorTick sets offline every agent with now - lastHeartbeat > 60 s and
\* leaves the health of every other agent; an offline agent becomes active again
\* only by a heartbeat or an upsertAgent, and an active agent with the capability
\* makes selectAgent with requireHealthy return an agent
C20_OfflineUntilRestored ==
  [][/\ monitorTick =>
          \A r \in Range(agents) :
            heap'[r].healthStatus =
              IF now - heap[r].lastHeartbeat > OfflineThreshold THEN "offline"
              ELSE heap[r].healthStatus
     /\ \A id \in registered \cap registered' :
          (HealthOf(id) = "offline" /\ HealthOf(id)' = "active") =>
            /\ Heartbeat \/ Register(AgentInputs, MaxCalls)
            /\ \A capability \in Range(heap'[RefOf(id)'].capabilities) :
                 /\ Includes(Healthy(capability, NoOptions)', RefOf(id)')
                 /\ Null \notin selectAgent(capability, NoOptions)'
     /\ \A id \in registered, capability \in Capabilities :
          HealthOf(id) = "offline" =>
            RefOf(id) \notin selectAgent(capability, NoOptions)]_vars

\* an agent registered degraded with a stale heartbeat, set offline by a tick (its
\* load shows the tick, its lastHeartbeat that no heartbeat came) and not selected
C20_Witness ==
  /\ now = MaxTime
  /\ Len(agents) = 1
  /\ heap[agents[1]].healthStatus = "offline"
  /\ heap[agents[1]].loadAvg = 97
  /\ heap[agents[1]].lastHeartbeat = 0
  /\ now - heap[agents[1]].lastHeartbeat > OfflineThreshold
  /\ selectAgent("x", NoOptions) = {Null}

\* the record of `id` is what upsertAgent(agent) leaves
StoredAs(agent) ==
  /\ RefOf(agent.id) # Null
  /\ LET a == heap[RefOf(agent.id)]
     IN /\ a.capabilities = NormalizeCaps(agent.capabilities)
        /\ a.endpoint = agent.endpoint
        /\ a.healthStatus = agent.healthStatus
        /\ a.loadAvg = ClampLoad(agent.loadAvg)
        /\ agent.lastHeartbeat # NoTime => a.lastHeartbeat = agent.lastHeartbeat

\* C21: upsertAgent(a) again with the fields of the upsertAgent(a) before it leaves
\* id, endpoint, capabilities, health and loadAvg of every agent, and the
\* lastHeartbeat of a when the caller gives none
C21_RegisterIdempotent ==
  [][\A agent \in AgentInputs :
       (StoredAs(agent) /\ upsertAgent(agent)) =>
         /\ Len(agents') = Len(agents)
         /\ \A i \in DOMAIN agents : heap'[agents'[i]] = heap[agents[i]]]_vars

\* a second upsertAgent for an agent with a call in flight: the Map holds a new
\* object, the call the old one, with equal fields
C21_Witness ==
  \E c \in BagToSet(inflight) :
    /\ Len(agents) = 1
    /\ agents[1] # c.agent
    /\ heap[agents[1]] = heap[c.agent]
    /\ heap[agents[1]].lastHeartbeat = ClockStart
    /\ now = MaxTime

\* C22: upsertAgent with a NaN loadAvg is refused and leaves the registry as it was
C22_InvalidInputRejected ==
  [][\A agent \in AgentInputs :
       (agent.loadAvg = NaN /\ upsertAgent(agent)) =>
         UNCHANGED <<agents, heap, registered>>]_vars

\* what the caller reads from the array of listAgents now
ReadListed == [i \in DOMAIN listed.refs |-> heap[listed.refs[i]]]

\* C23: the records of an array returned by listAgents stay as they were when it
\* returned, whatever heartbeat, upsertAgent, removeAgent, route feedback or
\* monitorTick comes after
C23_ListIsSnapshot == ReadListed = listed.copy

\* loadAvg after the success feedback then the failure feedback, and the other way
SuccessThenFailure(a) == FailureFeedback(SuccessFeedback(a)).loadAvg

FailureThenSuccess(a) == SuccessFeedback(FailureFeedback(a)).loadAvg

TwoInFlight(r) == \E c \in BagToSet(inflight) : c.agent = r /\ CopiesIn(c, inflight) >= 2

C25_RouteEventOrder ==
  [][/\ \A timeoutMs \in BurstTimeouts :
          (routeRequest("x", NoOptions, timeoutMs) /\ sentNow' # sentNow) =>
            (admission' # admission /\ sentNow' = sentNow + 1)
     /\ FailureSettles =>
          (sentNow' = sentNow /\ BagCardinality(inflight') < BagCardinality(inflight))]_vars

\* every sub-call of the call has settled or its timer has fired: this stays so until
\* the call returns
ReturnDue(c) == Settled(c) \/ now >= c.deadline

\* C26: reachConsensus returns only when every sub-call has settled, fulfilled or
\* rejected (a fulfilled sub-call beside a pending one does not end it), and a call
\* whose sub-calls have all settled or whose timer has fired eventually returns (no
\* such call is left)
C26_ReturnsAfterAllSettle ==
  /\ [][\A k \in DOMAIN consensus :
          (Len(consensus') < Len(consensus) /\ consensus[k] \notin Range(consensus')) =>
            Settled(consensus[k])]_vars
  /\ (\E k \in DOMAIN consensus : ReturnDue(consensus[k]))
       ~> (\A k \in DOMAIN consensus : ~ReturnDue(consensus[k]))

C26_Witness ==
  \E k \in DOMAIN consensus :
    /\ now >= consensus[k].deadline
    /\ \E i \in DOMAIN consensus[k].results : consensus[k].results[i] = "fulfilled"
    /\ \E i \in DOMAIN consensus[k].results : consensus[k].results[i] = "pending"

\* C27: every client record has tokens in [0, burstSize] and requests in
\* [0, maxRequests], and a checkLimit that is not allowed leaves the tokens and the
\* requests it found after the refill and the window reset
C27_RecordWithinBounds ==
  /\ \A key \in DOMAIN limiter.clients :
       /\ limiter.clients[key].tokens \in 0..limiter.config.burstSize
       /\ limiter.clients[key].requests \in 0..limiter.config.maxRequests
  /\ \A clientId \in ClientIds :
       LET config == limiter.config
           before == resetWindow(refillTokens(
                       getOrCreateClient(limiter.clients, hashClientId(clientId), now, config),
                       now, config), now, config)
           out == checkLimit(limiter, clientId, now)
       IN /\ out.client.tokens \in 0..config.burstSize
          /\ out.client.requests \in 0..config.maxRequests
          /\ ~out.result.allowed =>
               (out.client.tokens = before.tokens /\ out.client.requests = before.requests)

C27_Witness ==
  \E key \in DOMAIN checks \cap DOMAIN limiter.clients :
    /\ ~checks[key][Len(checks[key])].allowed
    /\ limiter.clients[key].requests = limiter.config.maxRequests
    /\ limiter.clients[key].tokens = limiter.config.burstSize
    /\ limiter.clients[key].lastRefill > limiter.clients[key].windowStart

\* the UTF-8 bytes of a character of the basic plane, given as its UTF-16 code unit
Utf8Char(c) ==
  IF c < 128 THEN <<c>>
  ELSE IF c < 2048 THEN <<192 + (c \div 64), 128 + (c % 64)>>
  ELSE <<224 + (c \div 4096), 128 + ((c \div 64) % 64), 128 + (c % 64)>>

RECURSIVE Utf8(_)
Utf8(input) == IF input = <<>> THEN <<>> ELSE Utf8Char(Head(input)) \o Utf8(Tail(input))

\* h = h XOR b; h = h + (h<<1) + (h<<4) + (h<<7) + (h<<8) + (h<<24), modulo 2^32
RECURSIVE SpecifiedMix(_, _)
SpecifiedMix(h, bytes) ==
  IF bytes = <<>> THEN h
  ELSE LET x == <<h[1], XorInt(h[2], Head(bytes))>>
           sum == WordAdd(x, WordAdd(WordShl(x, 1), WordAdd(WordShl(x, 4),
                    WordAdd(WordShl(x, 7), WordAdd(WordShl(x, 8), WordShl(x, 24))))))
       IN SpecifiedMix(sum, Tail(bytes))

\* C28: stableHash of a key is the specified mix, from 2166136261, of the bytes of the
\* UTF-8 encoding of the key, non-ASCII characters included, and lies in [0, 2^32)
C28_HashIsSpecifiedMix ==
  \A i \in DOMAIN hashed :
    /\ hashed[i].output = SpecifiedMix(<<FnvBasisHi, FnvBasisLo>>, Utf8(hashed[i].input))
    /\ hashed[i].output[1] \in 0..(HalfWord - 1)
    /\ hashed[i].output[2] \in 0..(HalfWord - 1)

\* C29: when a routeRequest call or a fulfilled reachConsensus sub-call settles, the
\* record the Map then holds for the id of the selected agent has taken the feedback,
\* also when the agent was registered again while the call was suspended
C29_FeedbackOnCurrentRecord ==
  [][/\ \A c \in BagToSet(inflight) :
          LET current == RefOf(heap[c.agent].id)
          IN current # Null =>
               /\ Settle(c, SuccessFeedback(heap[c.agent])) =>
                    heap'[current] = SuccessFeedback(heap[current])
               /\ Settle(c, FailureFeedback(heap[c.agent])) =>
                    heap'[current] = FailureFeedback(heap[current])
     /\ \A k \in DOMAIN consensus : \A i \in DOMAIN consensus[k].candidates :
          LET candidate == consensus[k].candidates[i]
              current == RefOf(heap[candidate].id)
          IN (current # Null /\ SubSettle(k, i, "fulfilled", ConsensusFeedback(heap[candidate]))) =>
               heap'[current] = ConsensusFeedback(heap[current])]_vars

\* C30: the health of a registered agent goes from degraded or offline to active only
\* in an upsertAgent or a heartbeat that carries healthStatus active, never in a
\* routeRequest, a reachConsensus or a monitorTick; a heartbeat without healthStatus
\* sets lastHeartbeat and leaves the health; and an agent that is not active is not
\* returned by selectAgent with requireHealthy true or omitted nor taken as a
\* candidate by reachConsensus
C30_RestoredOnlyExplicitly ==
  [][/\ \A id \in registered \cap registered' :
          (HealthOf(id) # "active" /\ HealthOf(id)' = "active") =>
            \/ \E agent \in AgentInputs :
                 agent.id = id /\ agent.healthStatus = "active" /\ upsertAgent(agent)
            \/ \E load \in UpdateLoadInputs : heartbeat(id, "active", load)
     /\ \A id \in registered, load \in UpdateLoadInputs :
          (HealthOf(id) # "active" /\ heartbeat(id, Undefined, load)) =>
            /\ HealthOf(id)' = HealthOf(id)
            /\ heap'[RefOf(id)].lastHeartbeat = now
     /\ \A id \in registered :
          HealthOf(id) # "active" =>
            /\ \A capability \in Capabilities :
                 /\ RefOf(id) \notin selectAgent(capability, NoOptions)
                 /\ RefOf(id) \notin selectAgent(capability, [NoOptions EXCEPT !.requireHealthy = "true"])
            /\ RefOf(id) \notin ConsensusRefs(consensus') \ ConsensusRefs(consensus)]_vars

\* an agent registered before a call that is still suspended on it, degraded by the
\* failure of an earlier call (its load shows the penalty), after a heartbeat at the
\* end of the clock: still degraded and not selected
C30_Witness ==
  /\ now = MaxTime
  /\ Len(agents) = 1
  /\ heap[agents[1]].healthStatus = "degraded"
  /\ heap[agents[1]].loadAvg = 70
  /\ heap[agents[1]].lastHeartbeat = MaxTime
  /\ \E c \in BagToSet(inflight) : c.agent = agents[1] /\ c.deadline < MaxTime
  /\ selectAgent("x", NoOptions) = {Null}

====
